---- MODULE Spec2Model ----
(***************************************************************************)
(* django-appmail: versioned e-mail templates stored in the database,      *)
(* rendered into multi-part messages, sent and logged.                     *)
(*                                                                         *)
(* Text is a sequence of atoms (short strings); a template source is a     *)
(* sequence of tokens: literal text, a {{ variable }} or a tag that raises *)
(* when the template is compiled or rendered.  A dict with nested dicts is *)
(* a function from leaf paths (sequences of keys) to values.               *)
(***************************************************************************)
EXTENDS Integers, Sequences, FiniteSets, TLC

VARIABLES
    templates,   \* rows of the EmailTemplate table
    nextId,      \* next primary key of the EmailTemplate table
    obj,         \* in-memory EmailTemplate instance of each session
    logs,        \* rows of the LoggedMessage table
    nextLogId,   \* next primary key of the LoggedMessage table
    outbox,      \* number of messages the mail transport has delivered
    users,       \* rows of the user table of the project (AUTH_USER_MODEL)
    now,         \* the clock, in ticks
    settings,    \* the APPMAIL_* settings of the project, read at import
    last         \* the call made by the last step and its outcome

vars == <<templates, nextId, obj, logs, nextLogId, outbox, users, now, settings, last>>

----------------------------------------------------------------------------
\* Bounds of the model.

MaxTemplates == 2    \* primary keys the EmailTemplate table hands out
MaxVersion == 1      \* highest version number explored
MaxLogs == 3         \* primary keys the LoggedMessage table hands out
MaxSent == 1         \* highest count the mail connection reports
MaxSends == 2        \* deliveries by the mail connection
MaxClock == 2        \* ticks the clock advances one by one around a period
MaxLen == 3          \* tokens of a content handed to get_context
MaxCalls == 2        \* messages composed one after the other from the same arguments
MaxProcessors == 2   \* context processors in a list

----------------------------------------------------------------------------
\* Values.

None == "None"
\* the pk of an instance that is not saved, and the absent row
NoPk == 0
NoRow == [pk |-> NoPk]

Names == {"welcome", "order"}
Languages == {"en-us", "de"}
\* settings.LANGUAGE_CODE and settings.DEFAULT_FROM_EMAIL of the project
LANGUAGE_CODE == "en-us"
DEFAULT_FROM_EMAIL == "webmaster@localhost"

\* the users of the project: one address with a single user, one shared by
\* two users whose addresses differ in case only
AuthUsers ==
    {[pk |-> 1, email |-> "bruce@kung.fu"],
     [pk |-> 2, email |-> "fred@example.com"],
     [pk |-> 3, email |-> "Fred@Example.com"]}

CONTENT_TYPE_PLAIN == "text/plain"
CONTENT_TYPE_HTML == "text/html"
CONTENT_TYPES == {CONTENT_TYPE_PLAIN, CONTENT_TYPE_HTML}

\* django.conf.settings of a project that sets none of the APPMAIL_* names
DefaultSettings == [APPMAIL_ADD_HEADERS |-> TRUE]

VALIDATE_ON_SAVE == TRUE
\* getattr(settings, "APPMAIL_ADD_HEADERS", True)
ADD_EXTRA_HEADERS == settings.APPMAIL_ADD_HEADERS
LOG_SENT_EMAILS == TRUE
LOG_RETENTION_PERIOD == 180
CONTEXT_PROCESSORS == << >>

Lit(s) == [t |-> "lit", s |-> s]
Var(p) == [t |-> "var", path |-> p]
Tag(e) == [t |-> "tag", error |-> e]

RECURSIVE Concat(_)
Concat(ss) == IF ss = << >> THEN << >> ELSE Head(ss) \o Concat(Tail(ss))

SeqToSet(s) == {s[i] : i \in DOMAIN s}

----------------------------------------------------------------------------
\* Django template engine, as far as the package relies on it.

\* django.utils.html.escape on one atom
escape_atom(a) ==
    CASE a = "&" -> "&amp;"
      [] a = "<" -> "&lt;"
      [] a = ">" -> "&gt;"
      [] a = "\"" -> "&quot;"
      [] a = "'" -> "&#x27;"
      [] OTHER -> a

escape(text) == [i \in DOMAIN text |-> escape_atom(text[i])]

\* Variable.resolve: a missing variable renders as the empty string
resolve(context, path) == IF path \in DOMAIN context THEN context[path] ELSE << >>

\* Values of a context other than text: a datetime.date and an object of the
\* project (a model instance), each a tag followed by what identifies it.
Date(iso) == <<"datetime.date", iso>>
Object(name) == <<"object", name>>
is_date(value) == Len(value) = 2 /\ value[1] = "datetime.date"
is_object(value) == Len(value) = 2 /\ value[1] = "object"

\* django.utils.formats.date_format(value, "DATE_FORMAT") with "N j, Y"
date_format(iso) ==
    CASE iso = "2020-05-01" -> "May 1, 2020"
      [] OTHER -> iso

\* render_value_in_context: the text a variable's value is rendered as
render_value(value) ==
    IF is_date(value) THEN <<date_format(value[2])>>
    ELSE IF is_object(value) THEN <<value[2]>>
    ELSE value

render_token(tok, context, autoescape) ==
    CASE tok.t = "lit" -> tok.s
      [] tok.t = "var" ->
            IF autoescape THEN escape(render_value(resolve(context, tok.path)))
            ELSE render_value(resolve(context, tok.path))
      [] OTHER -> << >>

\* Template(source).render(Context(context, autoescape=autoescape)):
\* a syntax error is raised when the source is compiled, any other error by
\* the first tag that raises while rendering.
Template_render(source, context, autoescape) ==
    LET syntax == {i \in DOMAIN source : source[i].t = "tag"
                        /\ source[i].error = "TemplateSyntaxError"}
        failing == {i \in DOMAIN source : source[i].t = "tag"}
        first == CHOOSE i \in failing : \A j \in failing : i <= j
    IN  IF syntax # {} THEN [raises |-> "TemplateSyntaxError", text |-> << >>]
        ELSE IF failing # {} THEN [raises |-> source[first].error, text |-> << >>]
        ELSE [raises |-> None,
              text |-> Concat([i \in DOMAIN source |->
                                  render_token(source[i], context, autoescape)])]

----------------------------------------------------------------------------
\* appmail.helpers

\* dict.update(d) on base: every top-level key of d replaces that key of base
\* (with all that hangs below it)
dict_update(base, d) ==
    LET kept == {p \in DOMAIN base : \A q \in DOMAIN d : Head(p) # Head(q)}
    IN  [p \in kept \cup DOMAIN d |-> IF p \in DOMAIN d THEN d[p] ELSE base[p]]

EmptyDict == [p \in {} |-> << >>]

RECURSIVE merge_dicts(_)
merge_dicts(dicts) ==
    IF dicts = << >> THEN EmptyDict
    ELSE LET n == Len(dicts)
         IN  dict_update(merge_dicts(SubSeq(dicts, 1, n - 1)), dicts[n])

\* (mutant of patch_context: the caller's context is applied last)
patch_context_caller_last(context, processors) == merge_dicts(processors \o <<context>>)

\* processors is the list of the dicts the context processors return
patch_context(context, processors) == merge_dicts(<<context>> \o processors)

\* str.upper on the keys that occur in template variables
upper(k) ==
    CASE k = "first_name" -> "FIRST_NAME"
      [] k = "user" -> "USER"
      [] k = "company_name" -> "COMPANY_NAME"
      [] k = "a" -> "A"
      [] k = "b" -> "B"
      [] k = "c" -> "C"
      [] OTHER -> k

\* the variables {{ a.b }} of the content, each split on "."
extract_vars(content) ==
    {content[i].path : i \in {j \in DOMAIN content : content[j].t = "var"}}

\* the nodes of the tree that setdefault builds from the paths
expand_list(list) ==
    UNION {{SubSeq(p, 1, n) : n \in 1..Len(p)} : p \in list}

IsPrefix(p, q) == Len(p) <= Len(q) /\ SubSeq(q, 1, Len(p)) = p

\* (mutant of fill_leaf_values: a leaf is named after the root of its path)
fill_leaf_values_root(tree) ==
    LET leaves == {p \in tree : \A q \in tree : IsPrefix(p, q) => q = p}
    IN  [p \in leaves |-> <<upper(p[1])>>]

fill_leaf_values(tree) ==
    LET leaves == {p \in tree : \A q \in tree : IsPrefix(p, q) => q = p}
    IN  [p \in leaves |-> <<upper(p[Len(p)])>>]

get_context(content) == fill_leaf_values(expand_list(extract_vars(content)))

----------------------------------------------------------------------------
\* appmail.models.EmailTemplateQuerySet

\* (mutant of active: the filter on is_active is left out)
active_all(qs) == qs

active(qs) == {r \in qs : r.is_active}

filter(qs, name, language) == {r \in qs : r.name = name /\ r.language = language}

\* order_by("version"): ascending; rows of equal version in any order
RECURSIVE order_by_version(_)
order_by_version(qs) ==
    IF qs = {} THEN << >>
    ELSE LET first == CHOOSE r \in qs : \A o \in qs : r.version <= o.version
         IN  <<first>> \o order_by_version(qs \ {first})

\* QuerySet.last(): the last row of the ordered queryset, or None
queryset_last(rows) == IF rows = << >> THEN NoRow ELSE rows[Len(rows)]

current(qs, name, language) ==
    queryset_last(order_by_version(filter(active(qs), name, language)))

\* QuerySet.get(**kwargs)
queryset_get(qs) ==
    IF qs = {} THEN [raises |-> "DoesNotExist", row |-> NoRow]
    ELSE IF Cardinality(qs) > 1 THEN [raises |-> "MultipleObjectsReturned", row |-> NoRow]
    ELSE [raises |-> None, row |-> CHOOSE r \in qs : TRUE]

\* (mutant of version: the version is not compared)
version_any(qs, name, v, language) ==
    queryset_get(filter(active(qs), name, language))

version(qs, name, v, language) ==
    queryset_get({r \in filter(active(qs), name, language) : r.version = v})

----------------------------------------------------------------------------
\* appmail.models.EmailTemplate

\* EmailTemplate(**fields): an unsaved instance; fields not given take the
\* defaults of the model
EmailTemplate(name, language, v, is_active, content) ==
    [pk |-> NoPk, name |-> name, language |-> language, version |-> v,
     is_active |-> is_active, test_context |-> EmptyDict,
     subject |-> content.subject, body_text |-> content.body_text,
     body_html |-> content.body_html, description |-> content.description,
     from_email |-> content.from_email, reply_to |-> content.reply_to,
     supports_attachments |-> content.supports_attachments]

render_subject(self, context, processors) ==
    Template_render(self.subject, patch_context(context, processors), FALSE)

\* (mutant of render_body: the HTML body is rendered without autoescape)
render_body_unescaped(self, context, content_type, processors) ==
    IF content_type \notin CONTENT_TYPES THEN [raises |-> "ValueError", text |-> << >>]
    ELSE IF content_type = CONTENT_TYPE_PLAIN
    THEN Template_render(self.body_text, patch_context(context, processors), FALSE)
    ELSE Template_render(self.body_html, patch_context(context, processors), FALSE)

\* (mutant of render_body: an unknown content type is rendered as plain text)
render_body_lenient(self, context, content_type, processors) ==
    IF content_type = CONTENT_TYPE_HTML
    THEN Template_render(self.body_html, patch_context(context, processors), TRUE)
    ELSE Template_render(self.body_text, patch_context(context, processors), FALSE)

render_body(self, context, content_type, processors) ==
    IF content_type \notin CONTENT_TYPES THEN [raises |-> "ValueError", text |-> << >>]
    ELSE IF content_type = CONTENT_TYPE_PLAIN
    THEN Template_render(self.body_text, patch_context(context, processors), FALSE)
    ELSE Template_render(self.body_html, patch_context(context, processors), TRUE)

Caught == {"TemplateDoesNotExist", "TemplateSyntaxError"}

\* the dict of errors, or the exception that is not caught
_validate_subject(self) ==
    LET r == render_subject(self, EmptyDict, CONTEXT_PROCESSORS)
    IN  IF r.raises \in Caught THEN [raises |-> None, errors |-> {"subject"}]
        ELSE [raises |-> r.raises, errors |-> {}]

_validate_body(self, content_type) ==
    IF content_type \notin CONTENT_TYPES THEN [raises |-> "ValueError", errors |-> {}]
    ELSE LET field_name == IF content_type = CONTENT_TYPE_PLAIN
                           THEN "body_text" ELSE "body_html"
             r == render_body(self, EmptyDict, content_type, CONTEXT_PROCESSORS)
         IN  IF r.raises \in Caught THEN [raises |-> None, errors |-> {field_name}]
             ELSE [raises |-> r.raises, errors |-> {}]

\* (mutant of clean: the first field that fails is the only one reported)
clean_fail_fast(self) ==
    LET plain == _validate_body(self, CONTENT_TYPE_PLAIN)
        html == _validate_body(self, CONTENT_TYPE_HTML)
        subject == _validate_subject(self)
    IN  IF plain.raises # None THEN [raises |-> plain.raises, errors |-> {}]
        ELSE IF plain.errors # {} THEN [raises |-> "ValidationError", errors |-> plain.errors]
        ELSE IF html.raises # None THEN [raises |-> html.raises, errors |-> {}]
        ELSE IF html.errors # {} THEN [raises |-> "ValidationError", errors |-> html.errors]
        ELSE IF subject.raises # None THEN [raises |-> subject.raises, errors |-> {}]
        ELSE IF subject.errors # {}
        THEN [raises |-> "ValidationError", errors |-> subject.errors]
        ELSE [raises |-> None, errors |-> {}]

clean(self) ==
    LET plain == _validate_body(self, CONTENT_TYPE_PLAIN)
        html == _validate_body(self, CONTENT_TYPE_HTML)
        subject == _validate_subject(self)
        validation_errors == plain.errors \cup html.errors \cup subject.errors
    IN  IF plain.raises # None THEN [raises |-> plain.raises, errors |-> {}]
        ELSE IF html.raises # None THEN [raises |-> html.raises, errors |-> {}]
        ELSE IF subject.raises # None THEN [raises |-> subject.raises, errors |-> {}]
        ELSE IF validation_errors # {}
        THEN [raises |-> "ValidationError", errors |-> validation_errors]
        ELSE [raises |-> None, errors |-> {}]

\* unique_together = ("name", "language", "version"): the rows other than
\* the one written that hold the key
unique_together(rows, row) ==
    {r \in rows : r.pk # row.pk /\ r.name = row.name
                    /\ r.language = row.language /\ r.version = row.version}

\* django Model.save(): UPDATE the row of this pk, INSERT when there is none
\* (with the next key of the table when pk is None)
\* (mutant of Model_save: the table has no unique constraint)
Model_save_unchecked(self, rows, nid) ==
    LET row == IF self.pk = NoPk THEN [self EXCEPT !.pk = nid] ELSE self
    IN  [raises |-> None, self |-> row,
         rows |-> {r \in rows : r.pk # row.pk} \cup {row},
         nid |-> IF self.pk = NoPk THEN nid + 1 ELSE nid]

Model_save(self, rows, nid) ==
    LET row == IF self.pk = NoPk THEN [self EXCEPT !.pk = nid] ELSE self
        others == {r \in rows : r.pk # row.pk}
    IN  IF unique_together(rows, row) # {}
        THEN [raises |-> "IntegrityError", self |-> self, rows |-> rows, nid |-> nid]
        ELSE [raises |-> None, self |-> row, rows |-> others \cup {row},
              nid |-> IF self.pk = NoPk THEN nid + 1 ELSE nid]

\* (mutant of save: the test context is computed at every save)
save_refreshing(self, validate, rows, nid) ==
    LET first == [self EXCEPT !.test_context =
                    get_context(self.subject \o self.body_text \o self.body_html)]
        cleaned == IF validate THEN clean(first) ELSE [raises |-> None, errors |-> {}]
    IN  IF cleaned.raises # None
        THEN [raises |-> cleaned.raises, self |-> first, rows |-> rows, nid |-> nid]
        ELSE Model_save(first, rows, nid)

\* (mutant of save: the row is written before the template is validated)
save_then_clean(self, validate, rows, nid) ==
    LET first == IF self.pk = NoPk
                 THEN [self EXCEPT !.test_context =
                          get_context(self.subject \o self.body_text \o self.body_html)]
                 ELSE self
        saved == Model_save(first, rows, nid)
        cleaned == IF validate THEN clean(first) ELSE [raises |-> None, errors |-> {}]
    IN  IF saved.raises = None /\ cleaned.raises # None
        THEN [saved EXCEPT !.raises = cleaned.raises]
        ELSE saved

save(self, validate, rows, nid) ==
    LET first == IF self.pk = NoPk
                 THEN [self EXCEPT !.test_context =
                          get_context(self.subject \o self.body_text \o self.body_html)]
                 ELSE self
        cleaned == IF validate THEN clean(first) ELSE [raises |-> None, errors |-> {}]
    IN  IF cleaned.raises # None
        THEN [raises |-> cleaned.raises, self |-> first, rows |-> rows, nid |-> nid]
        ELSE Model_save(first, rows, nid)

\* (mutant of clone: the copy is saved as inactive)
clone_inactive(self, rows, nid) ==
    save([self EXCEPT !.pk = NoPk, !.version = self.version + 1,
                      !.is_active = FALSE],
         VALIDATE_ON_SAVE, rows, nid)

\* (mutant of clone: pk is not reset, the row is saved in place)
clone_in_place(self, rows, nid) ==
    save([self EXCEPT !.version = self.version + 1], VALIDATE_ON_SAVE, rows, nid)

clone(self, rows, nid) ==
    save([self EXCEPT !.pk = NoPk, !.version = self.version + 1],
         VALIDATE_ON_SAVE, rows, nid)

----------------------------------------------------------------------------
\* Template contents the steps draw from.

Welcome ==
    [subject |-> <<Lit(<<"Welcome", " ">>), Var(<<"first_name">>)>>,
     body_text |-> <<Lit(<<"Hello", " ">>), Var(<<"first_name">>)>>,
     body_html |-> <<Lit(<<"<h1>", "Hello", " ">>), Var(<<"first_name">>),
                     Lit(<<"</h1>">>)>>,
     description |-> "", from_email |-> DEFAULT_FROM_EMAIL,
     reply_to |-> <<DEFAULT_FROM_EMAIL>>, supports_attachments |-> FALSE]

Order ==
    [subject |-> <<Lit(<<"Hello", " ">>), Var(<<"user", "first_name">>)>>,
     body_text |-> <<Lit(<<"Welcome", " ", "to", " ">>), Var(<<"company_name">>)>>,
     body_html |-> <<Lit(<<"<p>", "Welcome", " ", "to", " ">>),
                     Var(<<"company_name">>), Lit(<<"</p>">>)>>,
     description |-> "new header", from_email |-> "Fred <fred@example.com>",
     reply_to |-> <<"fred@example.com", ",", " ", "ginger@example.com">>,
     supports_attachments |-> TRUE]

\* an HTML body with an invalid block tag
Broken ==
    [subject |-> <<Lit(<<"Welcome">>)>>,
     body_text |-> <<Lit(<<"Hello", " ">>), Var(<<"first_name">>)>>,
     body_html |-> <<Lit(<<"<h1>">>), Tag("TemplateSyntaxError")>>,
     description |-> "", from_email |-> DEFAULT_FROM_EMAIL,
     reply_to |-> <<DEFAULT_FROM_EMAIL>>, supports_attachments |-> FALSE]

Contents == {Welcome, Order, Broken}

ContentOf(t) ==
    [subject |-> t.subject, body_text |-> t.body_text, body_html |-> t.body_html,
     description |-> t.description, from_email |-> t.from_email,
     reply_to |-> t.reply_to, supports_attachments |-> t.supports_attachments]

WithContent(t, c) ==
    [t EXCEPT !.subject = c.subject, !.body_text = c.body_text,
              !.body_html = c.body_html, !.description = c.description,
              !.from_email = c.from_email, !.reply_to = c.reply_to,
              !.supports_attachments = c.supports_attachments]

Sessions == {"s1", "s2"}
NoObj == [s \in Sessions |-> NoRow]

Row(pk) == CHOOSE r \in templates : r.pk = pk
Pks == {r.pk : r \in templates}

----------------------------------------------------------------------------
\* The template store: each step is one request.

StoreResult(op, pk, validate, result) ==
    \E r \in {result} :
        /\ templates' = r.rows
        /\ nextId' = r.nid
        /\ last' = [op |-> op, pk |-> pk, validate |-> validate, raises |-> r.raises,
                    new |-> IF r.raises = None THEN r.self.pk ELSE NoPk]
        /\ UNCHANGED <<obj, logs, nextLogId, outbox, users, now, settings>>

\* EmailTemplate(...).save(validate=validate)
CreateTemplate(name, language, v, is_active, content, validate) ==
    /\ nextId <= MaxTemplates
    /\ StoreResult("create", NoPk, validate,
                   save(EmailTemplate(name, language, v, is_active, content),
                        validate, templates, nextId))

\* t = EmailTemplate.objects.get(pk=pk); t.name, t.language, t.version = ...; t.save()
EditKey(pk, name, language, v, validate) ==
    /\ pk \in Pks
    /\ StoreResult("edit", pk, validate,
                   save([Row(pk) EXCEPT !.name = name, !.language = language,
                                        !.version = v],
                        validate, templates, nextId))

\* t = EmailTemplate.objects.get(pk=pk); t.subject, ... = ...; t.save()
EditContent(pk, is_active, content, validate) ==
    /\ pk \in Pks
    /\ StoreResult("edit", pk, validate,
                   save(WithContent([Row(pk) EXCEPT !.is_active = is_active], content),
                        validate, templates, nextId))

\* EmailTemplate.objects.get(pk=pk).clone()
CloneTemplate(pk) ==
    /\ pk \in Pks
    /\ nextId <= MaxTemplates
    /\ Row(pk).version < MaxVersion
    /\ StoreResult("clone", pk, VALIDATE_ON_SAVE, clone(Row(pk), templates, nextId))

\* admin actions: queryset.update(is_active=value)
queryset_update(qs, pks, value) ==
    {IF r.pk \in pks THEN [r EXCEPT !.is_active = value] ELSE r : r \in qs}

activate_templates(pks) ==
    /\ pks # {}
    /\ templates' = queryset_update(templates, pks, TRUE)
    /\ last' = [op |-> "activate", pk |-> NoPk, raises |-> None, new |-> NoPk]
    /\ UNCHANGED <<nextId, obj, logs, nextLogId, outbox, users, now, settings>>

deactivate_templates(pks) ==
    /\ pks # {}
    /\ templates' = queryset_update(templates, pks, FALSE)
    /\ last' = [op |-> "deactivate", pk |-> NoPk, raises |-> None, new |-> NoPk]
    /\ UNCHANGED <<nextId, obj, logs, nextLogId, outbox, users, now, settings>>

\* LoggedMessage.template: on_delete=SET_NULL
\* (mutant of set_null: the rows of the deleted template go with it)
set_null_cascade(rows, pk) == {l \in rows : l.template # pk}

set_null(rows, pk) ==
    {IF l.template = pk THEN [l EXCEPT !.template = NoPk] ELSE l : l \in rows}

DeleteTemplate(pk) ==
    /\ pk \in Pks
    /\ templates' = {r \in templates : r.pk # pk}
    /\ logs' = set_null(logs, pk)
    /\ last' = [op |-> "delete", pk |-> pk, raises |-> None, new |-> NoPk]
    /\ UNCHANGED <<nextId, obj, nextLogId, outbox, users, now, settings>>

Init ==
    /\ templates = {}
    /\ nextId = 1
    /\ obj = NoObj
    /\ logs = {}
    /\ nextLogId = 1
    /\ outbox = 0
    /\ users = AuthUsers
    /\ now = 0
    /\ settings = DefaultSettings
    /\ last = [op |-> "init", pk |-> NoPk, raises |-> None, new |-> NoPk]

\* the requests to the store, with fields drawn from the given sets
StoreNext(keys, contents, validates) ==
    \/ \E key \in keys, v \in 0..MaxVersion, is_active \in BOOLEAN,
          content \in contents, validate \in validates :
            CreateTemplate(key[1], key[2], v, is_active, content, validate)
    \/ \E pk \in Pks, key \in keys, v \in 0..MaxVersion, validate \in validates :
            EditKey(pk, key[1], key[2], v, validate)
    \/ \E pk \in Pks, is_active \in BOOLEAN, content \in contents,
          validate \in validates :
            EditContent(pk, is_active, content, validate)
    \/ \E pk \in Pks : CloneTemplate(pk)
    \/ \E pks \in SUBSET Pks : activate_templates(pks)
    \/ \E pks \in SUBSET Pks : deactivate_templates(pks)
    \/ \E pk \in Pks : DeleteTemplate(pk)

\* templates of several names and languages, all with the same content
Keys == {<<"welcome", "en-us">>, <<"welcome", "de">>, <<"order", "en-us">>}

Next == StoreNext(Keys, {Welcome}, {VALIDATE_ON_SAVE})

Spec == Init /\ [][Next]_vars

\* templates of one name and language, with contents that do and do not render
NextContent == StoreNext({<<"welcome", LANGUAGE_CODE>>}, {Order, Broken}, BOOLEAN)

SpecContent == Init /\ [][NextContent]_vars

\* saves of new, stored and cloned templates, with and without validation
NextSave ==
    \/ \E v \in 0..MaxVersion, content \in {Order, Broken}, validate \in BOOLEAN :
            CreateTemplate("welcome", LANGUAGE_CODE, v, TRUE, content, validate)
    \/ \E pk \in Pks, content \in {Order, Broken}, validate \in BOOLEAN :
            EditContent(pk, TRUE, content, validate)
    \/ \E pk \in Pks : CloneTemplate(pk)

SpecSave == Init /\ [][NextSave]_vars

----------------------------------------------------------------------------
\* Concurrent requests: each session holds an instance in memory, which goes
\* stale when another session writes; the only shared step of save() and
\* clone() is the write to the table.

SessionResult(op, s, result) ==
    \E r \in {result} :
        /\ templates' = r.rows
        /\ nextId' = r.nid
        /\ obj' = [obj EXCEPT ![s] = r.self]
        /\ last' = [op |-> op, pk |-> obj[s].pk, raises |-> r.raises,
                    new |-> IF r.raises = None THEN r.self.pk ELSE NoPk, s |-> s]
        /\ UNCHANGED <<logs, nextLogId, outbox, users, now, settings>>

SessionLocal(op, s, instance) ==
    /\ obj' = [obj EXCEPT ![s] = instance]
    /\ last' = [op |-> op, pk |-> instance.pk, raises |-> None, new |-> NoPk, s |-> s]
    /\ UNCHANGED <<templates, nextId, logs, nextLogId, outbox, users, now, settings>>

\* template = EmailTemplate(name=..., language=..., version=...)
New(s, name, language, v) ==
    SessionLocal("new", s, EmailTemplate(name, language, v, TRUE, Welcome))

\* template = EmailTemplate.objects.get(pk=pk)
Get(s, pk) ==
    /\ pk \in Pks
    /\ SessionLocal("get", s, Row(pk))

\* template.name, template.language, template.version = ...
SetKey(s, name, language, v) ==
    /\ obj[s] # NoRow
    /\ SessionLocal("set", s, [obj[s] EXCEPT !.name = name, !.language = language,
                                             !.version = v])

\* template.save()
Save(s) ==
    /\ obj[s] # NoRow
    /\ obj[s].pk = NoPk => nextId <= MaxTemplates
    /\ SessionResult("save", s, save(obj[s], VALIDATE_ON_SAVE, templates, nextId))

\* template.clone()
Clone(s) ==
    /\ obj[s] # NoRow
    /\ nextId <= MaxTemplates
    /\ obj[s].version < MaxVersion
    /\ SessionResult("clone", s, clone(obj[s], templates, nextId))

\* the sessions work on the versions of one template
ConcKeys == {<<"welcome", LANGUAGE_CODE>>}

NextConc ==
    \/ \E s \in Sessions, key \in ConcKeys, v \in 0..MaxVersion :
            New(s, key[1], key[2], v)
    \/ \E s \in Sessions, pk \in Pks : Get(s, pk)
    \/ \E s \in Sessions, key \in ConcKeys, v \in 0..MaxVersion :
            SetKey(s, key[1], key[2], v)
    \/ \E s \in Sessions : Save(s)
    \/ \E s \in Sessions : Clone(s)
    \/ \E pk \in Pks : DeleteTemplate(pk)

SpecConc == Init /\ [][NextConc]_vars

----------------------------------------------------------------------------
\* Composing a message.  email_kwargs is a function from the names of the
\* keyword arguments given to their values.

NoKwargs == << >>

\* bool(dict.get(key)): the key is given and its value is not empty
truthy(email_kwargs, key) ==
    key \in DOMAIN email_kwargs /\ Len(email_kwargs[key]) > 0

\* dict.get(key) or default
get_or(email_kwargs, key, default) ==
    IF truthy(email_kwargs, key) THEN email_kwargs[key] ELSE default

\* dict.get(key, default)
get(email_kwargs, key, default) ==
    IF key \in DOMAIN email_kwargs THEN email_kwargs[key] ELSE default

\* str.strip on a text of atoms
RECURSIVE lstrip(_)
lstrip(text) ==
    IF text # << >> /\ Head(text) = " " THEN lstrip(Tail(text)) ELSE text

RECURSIVE rstrip(_)
rstrip(text) ==
    IF text # << >> /\ text[Len(text)] = " "
    THEN rstrip(SubSeq(text, 1, Len(text) - 1)) ELSE text

strip(text) == rstrip(lstrip(text))

\* str.split(","): the texts between the commas
RECURSIVE split(_)
split(text) ==
    LET commas == {i \in DOMAIN text : text[i] = ","}
        first == CHOOSE i \in commas : \A j \in commas : i <= j
    IN  IF commas = {} THEN <<text>>
        ELSE <<SubSeq(text, 1, first - 1)>>
                \o split(SubSeq(text, first + 1, Len(text)))

\* (mutant of reply_to_list: the entries are not trimmed)
reply_to_list_untrimmed(self) == split(self.reply_to)

reply_to_list(self) ==
    LET parts == split(self.reply_to)
    IN  [i \in DOMAIN parts |-> strip(parts[i])]

extra_headers(self) ==
    "X-Appmail-Template" :>
        <<"name=", self.name, "; language=", self.language,
          "; version=", ToString(self.version)>>

NoMessage == [template |-> NoRow]

\* django EmailMultiAlternatives.__init__ after the fields set from the
\* template; a template of None has no render_subject
AppmailMultiAlternatives(template, context, email_kwargs) ==
    LET subject == render_subject(template, context, CONTEXT_PROCESSORS)
        body == render_body(template, context, CONTENT_TYPE_PLAIN, CONTEXT_PROCESSORS)
        html == render_body(template, context, CONTENT_TYPE_HTML, CONTEXT_PROCESSORS)
    IN  IF template = NoRow THEN [raises |-> "AttributeError", message |-> NoMessage]
        ELSE IF subject.raises # None
        THEN [raises |-> subject.raises, message |-> NoMessage]
        ELSE IF body.raises # None THEN [raises |-> body.raises, message |-> NoMessage]
        ELSE IF html.raises # None THEN [raises |-> html.raises, message |-> NoMessage]
        ELSE [raises |-> None,
              message |->
                [template |-> template,
                 context |-> context,
                 user |-> get(email_kwargs, "user", NoPk),
                 subject |-> subject.text,
                 body |-> body.text,
                 html |-> html.text,
                 alternatives |-> << <<html.text, CONTENT_TYPE_HTML>> >>,
                 to |-> get_or(email_kwargs, "to", << >>),
                 cc |-> get_or(email_kwargs, "cc", << >>),
                 bcc |-> get_or(email_kwargs, "bcc", << >>),
                 from_email |-> get_or(email_kwargs, "from_email", DEFAULT_FROM_EMAIL),
                 reply_to |-> get_or(email_kwargs, "reply_to", << >>),
                 headers |-> get(email_kwargs, "headers", NoKwargs),
                 attachments |-> get_or(email_kwargs, "attachments", << >>)]]

Reserved == {"subject", "body", "alternatives"}

\* The result of create_message names, next to the message, the caller's
\* arguments as they are after the call (passed): email_kwargs["headers"] is
\* the caller's own mapping, which dict.update changes in place.

\* (mutant of create_message: attachments are not checked against the template)
create_message_no_policy(self, context, email_kwargs) ==
    IF Reserved \cap DOMAIN email_kwargs # {}
    THEN [raises |-> "ValueError", message |-> NoMessage, passed |-> email_kwargs]
    ELSE LET made == AppmailMultiAlternatives(self, context,
                ("reply_to" :> get_or(email_kwargs, "reply_to", reply_to_list(self)))
                @@ ("from_email" :> get_or(email_kwargs, "from_email", self.from_email))
                @@ email_kwargs)
         IN  [raises |-> made.raises, message |-> made.message, passed |-> email_kwargs]

\* (mutant of create_message: the header is added whatever the setting)
create_message_ungated(self, context, email_kwargs) ==
    IF Reserved \cap DOMAIN email_kwargs # {}
    THEN [raises |-> "ValueError", message |-> NoMessage, passed |-> email_kwargs]
    ELSE IF truthy(email_kwargs, "attachments") /\ ~self.supports_attachments
    THEN [raises |-> "ValueError", message |-> NoMessage, passed |-> email_kwargs]
    ELSE LET reply_to == "reply_to" :> get_or(email_kwargs, "reply_to", reply_to_list(self))
             from_email == "from_email" :> get_or(email_kwargs, "from_email", self.from_email)
             headers == "headers" :> (extra_headers(self)
                                        @@ get(email_kwargs, "headers", NoKwargs))
             made == AppmailMultiAlternatives(self, context,
                        headers @@ reply_to @@ from_email @@ email_kwargs)
         IN  [raises |-> made.raises, message |-> made.message,
              passed |-> IF "headers" \in DOMAIN email_kwargs
                         THEN headers @@ email_kwargs ELSE email_kwargs]

create_message(self, context, email_kwargs) ==
    IF Reserved \cap DOMAIN email_kwargs # {}
    THEN [raises |-> "ValueError", message |-> NoMessage, passed |-> email_kwargs]
    ELSE IF truthy(email_kwargs, "attachments") /\ ~self.supports_attachments
    THEN [raises |-> "ValueError", message |-> NoMessage, passed |-> email_kwargs]
    ELSE LET reply_to == "reply_to" :> get_or(email_kwargs, "reply_to", reply_to_list(self))
             from_email == "from_email" :> get_or(email_kwargs, "from_email", self.from_email)
             headers == IF ADD_EXTRA_HEADERS
                        THEN "headers" :> (extra_headers(self)
                                            @@ get(email_kwargs, "headers", NoKwargs))
                        ELSE NoKwargs
             made == AppmailMultiAlternatives(self, context,
                        headers @@ reply_to @@ from_email @@ email_kwargs)
         IN  [raises |-> made.raises, message |-> made.message,
              passed |-> IF ADD_EXTRA_HEADERS /\ "headers" \in DOMAIN email_kwargs
                         THEN headers @@ email_kwargs ELSE email_kwargs]

\* Inputs of the calls that compose a message.

ComposeTemplates ==
    {[EmailTemplate("welcome", LANGUAGE_CODE, 0, TRUE, content)
        EXCEPT !.supports_attachments = flag] :
            content \in Contents, flag \in BOOLEAN}

TestAndCompany == <<"Test", " ", "&", " ", "Company">>

Contexts ==
    {EmptyDict,
     <<"first_name">> :> TestAndCompany,
     <<"first_name">> :> <<"<", "b", ">", "\"", "'">>,
     (<<"user", "first_name">> :> TestAndCompany)
        @@ (<<"company_name">> :> <<"Me", " ", "&", " ", "Co", " ", "Inc">>)}

Given(present, key, value) == IF present THEN key :> value ELSE NoKwargs

Attachments == {<< >>, <<"image.png">>}

ComposeInputs ==
    {[template |-> template, context |-> context,
      email_kwargs |->
        Given(to, "to", <<"bruce@kung.fu">>)
        @@ Given(from_email, "from_email", "Fred <fred@example.com>")
        @@ Given(headers, "headers", "X-Campaign" :> <<"spring">>)
        @@ Given(subject, "subject", "foo")
        @@ Given(body, "body", "foo")
        @@ Given(alternatives, "alternatives", "foo")
        @@ attachments] :
        template \in ComposeTemplates, context \in Contexts,
        to \in BOOLEAN, from_email \in BOOLEAN, headers \in BOOLEAN,
        subject \in BOOLEAN, body \in BOOLEAN, alternatives \in BOOLEAN,
        attachments \in {NoKwargs} \cup {"attachments" :> a : a \in Attachments}}

InitCompose ==
    /\ templates = {}
    /\ nextId = 1
    /\ obj = NoObj
    /\ logs = {}
    /\ nextLogId = 1
    /\ outbox = 0
    /\ users = AuthUsers
    /\ now = 0
    /\ settings = DefaultSettings
    /\ \E input \in ComposeInputs : last = [op |-> "input", input |-> input]

\* template.create_message(context, **email_kwargs)
CreateMessage ==
    /\ last.op = "input"
    /\ last' = [op |-> "create_message", input |-> last.input,
                result |-> create_message(last.input.template, last.input.context,
                                          last.input.email_kwargs)]
    /\ UNCHANGED <<templates, nextId, obj, logs, nextLogId, outbox, users, now, settings>>

\* AppmailMultiAlternatives(template=template, context=context, **email_kwargs)
ConstructMessage ==
    /\ last.op = "input"
    /\ last' = [op |-> "AppmailMultiAlternatives", input |-> last.input,
                result |-> AppmailMultiAlternatives(last.input.template,
                                                    last.input.context,
                                                    last.input.email_kwargs)]
    /\ UNCHANGED <<templates, nextId, obj, logs, nextLogId, outbox, users, now, settings>>

NextCompose == CreateMessage \/ ConstructMessage

SpecCompose == InitCompose /\ [][NextCompose]_vars

----------------------------------------------------------------------------
\* Sending a message and logging it.

\* django EmailMessage.recipients
recipients(message) == message.to \o message.cc \o message.bcc

\* what the mail connection does with the message: the number it reports as
\* sent, or the error it raises (fail_silently is handed on to the connection)
Transports ==
    {[raises |-> None, count |-> n] : n \in 0..MaxSent}
        \cup {[raises |-> "SMTPException", count |-> 0]}

\* django EmailMessage.send: without recipients the connection is not used
EmailMessage_send(message, transport) ==
    IF recipients(message) = << >> THEN [raises |-> None, count |-> 0] ELSE transport

\* (mutant of json_dumps: every value is stored as it is)
json_dumps_verbatim(context) == context

\* JSONField(encoder=DjangoJSONEncoder): what the column holds for a context;
\* a date is stored as its ISO text
json_dumps(context) ==
    [path \in DOMAIN context |->
        IF is_date(context[path]) THEN <<context[path][2]>> ELSE context[path]]

\* a value the encoder has no encoding for
serializable(context) == \A path \in DOMAIN context : ~is_object(context[path])

\* JSONField.from_db_value: JSON strings are read back as text
json_loads(document) == document

LoggedMessage(id, message, to) ==
    [id |-> id, template |-> message.template.pk, to |-> to, user |-> message.user,
     timestamp |-> now,
     subject |-> message.subject, body |-> message.body, html |-> message.html,
     context |-> json_dumps(message.context)]

\* LoggedMessage.objects.create(template=..., to=..., ...): the row is refused
\* for a template that is not saved, a context that has no JSON encoding, a
\* template that is no longer stored, or when the database fails the insert
objects_create(message, to, store, rows, lid, fails) ==
    IF message.template.pk = NoPk
    THEN [raises |-> "ValueError", logs |-> rows, lid |-> lid]
    ELSE IF ~serializable(message.context)
    THEN [raises |-> "TypeError", logs |-> rows, lid |-> lid]
    ELSE IF message.template.pk \notin {t.pk : t \in store}
    THEN [raises |-> "IntegrityError", logs |-> rows, lid |-> lid]
    ELSE IF fails
    THEN [raises |-> "DatabaseError", logs |-> rows, lid |-> lid]
    ELSE [raises |-> None, logs |-> rows \cup {LoggedMessage(lid, message, to)},
          lid |-> lid + 1]

\* for recipient_email in self.to, from the k-th entry on; the insert of entry
\* failAt fails
RECURSIVE log_recipients(_, _, _, _, _, _)
log_recipients(message, k, store, rows, lid, failAt) ==
    IF k > Len(message.to) THEN [raises |-> None, logs |-> rows, lid |-> lid]
    ELSE LET r == objects_create(message, message.to[k], store, rows, lid, k = failAt)
         IN  IF r.raises # None THEN r
             ELSE log_recipients(message, k + 1, store, r.logs, r.lid, failAt)

\* (mutant of send_body: log_sent_emails and the count are not looked at)
send_body_always_logging(message, log_sent_emails, transport, failAt, store, rows, lid) ==
    LET sent == EmailMessage_send(message, transport)
        r == log_recipients(message, 1, store, rows, lid, failAt)
    IN  IF sent.raises # None
        THEN [raises |-> sent.raises, returns |-> 0, logs |-> rows, lid |-> lid]
        ELSE [raises |-> r.raises, returns |-> IF r.raises = None THEN sent.count ELSE 0,
              logs |-> r.logs, lid |-> r.lid]

\* the body of send
send_body(message, log_sent_emails, transport, failAt, store, rows, lid) ==
    LET sent == EmailMessage_send(message, transport)
        r == log_recipients(message, 1, store, rows, lid, failAt)
    IN  IF sent.raises # None
        THEN [raises |-> sent.raises, returns |-> 0, logs |-> rows, lid |-> lid]
        ELSE IF ~log_sent_emails
        THEN [raises |-> None, returns |-> sent.count, logs |-> rows, lid |-> lid]
        ELSE IF sent.count = 0
        THEN [raises |-> None, returns |-> 0, logs |-> rows, lid |-> lid]
        ELSE [raises |-> r.raises, returns |-> IF r.raises = None THEN sent.count ELSE 0,
              logs |-> r.logs, lid |-> r.lid]

\* transaction.atomic: the rows written are kept when the block returns and
\* rolled back when it raises
transaction_atomic(rows, r) ==
    IF r.raises # None THEN [r EXCEPT !.logs = rows] ELSE r

\* (mutant of send: the rows are written without transaction.atomic)
send_autocommit(message, log_sent_emails, transport, failAt, store, rows, lid) ==
    send_body(message, log_sent_emails, transport, failAt, store, rows, lid)

send(message, log_sent_emails, transport, failAt, store, rows, lid) ==
    transaction_atomic(rows,
        send_body(message, log_sent_emails, transport, failAt, store, rows, lid))

\* the message was handed to the connection and reported as sent
delivered(message, transport) ==
    LET sent == EmailMessage_send(message, transport)
    IN  IF sent.raises = None /\ sent.count > 0 THEN 1 ELSE 0

\* instances a caller can hold: a stored template, one that is not saved and
\* the one stored last when its row has been deleted
Instances ==
    templates
        \cup {EmailTemplate("welcome", LANGUAGE_CODE, 0, TRUE, Welcome)}
        \cup {[EmailTemplate("welcome", LANGUAGE_CODE, 0, TRUE, Welcome)
                    EXCEPT !.pk = pk] : pk \in {nextId - 1} \ (Pks \cup {NoPk})}

ToLists == {<< >>, <<"bruce@kung.fu">>, <<"bruce@kung.fu", "fred@example.com">>}
CcLists == {<< >>, <<"ginger@example.com">>}
SendContexts == {<<"first_name">> :> TestAndCompany}
\* the caller names no user, or the user of the first address
SendUsers == {NoPk, 1}

\* the insert the database fails, if any: one of those the send attempts
InsertFailures(to, cc, log_sent_emails, transport) ==
    IF log_sent_emails /\ transport.raises = None /\ transport.count > 0
    THEN 0..Len(to) ELSE {0}

\* the user keyword argument: given when it names a user
UserKwarg(user) == IF user = NoPk THEN NoKwargs ELSE "user" :> user

\* template.create_message(context, to=to, cc=cc, user=user)
\*     .send(log_sent_emails=...)
Send(template, context, to, cc, user, log_sent_emails, transport, failAt) ==
    /\ outbox < MaxSends
    /\ nextLogId + Len(to) - 1 <= MaxLogs
    /\ user \in {NoPk} \cup {u.pk : u \in users}
    /\ \E composed \in {create_message(template, context,
                            ("to" :> to) @@ ("cc" :> cc) @@ UserKwarg(user))} :
        /\ composed.raises = None
        /\ \E r \in {send(composed.message, log_sent_emails, transport, failAt,
                  templates, logs, nextLogId)} :
            /\ logs' = r.logs
            /\ nextLogId' = r.lid
            /\ outbox' = outbox + delivered(composed.message, transport)
            /\ last' = [op |-> "send", message |-> composed.message,
                    log_sent_emails |-> log_sent_emails,
                    sent |-> EmailMessage_send(composed.message, transport),
                    failAt |-> failAt, raises |-> r.raises, returns |-> r.returns]
            /\ UNCHANGED <<templates, nextId, obj, users, now, settings>>

\* the sends, with arguments drawn from the given sets
SendSteps(contexts, toLists, ccLists, sendUsers, flags, transports) ==
    \E template \in Instances, context \in contexts, to \in toLists,
       cc \in ccLists, user \in sendUsers, log_sent_emails \in flags,
       transport \in transports :
        \E failAt \in InsertFailures(to, cc, log_sent_emails, transport) :
            Send(template, context, to, cc, user, log_sent_emails, transport, failAt)

NextSend ==
    \/ CreateTemplate("welcome", LANGUAGE_CODE, 0, TRUE, Welcome, VALIDATE_ON_SAVE)
    \/ \E pk \in 1..MaxTemplates : DeleteTemplate(pk)
    \/ SendSteps(SendContexts, ToLists, CcLists, {NoPk}, BOOLEAN, Transports)

SpecSend == Init /\ [][NextSend]_vars

----------------------------------------------------------------------------
\* Sending a logged message again.

LogIds == {l.id : l \in logs}
Log(id) == CHOOSE l \in logs : l.id = id

\* self.template of a LoggedMessage: the row the key refers to, or None
related_template(self, store) ==
    IF self.template = NoPk THEN NoRow
    ELSE CHOOSE t \in store : t.pk = self.template

\* (mutant of as_message_object: the message goes to the user's address too)
as_message_object_to_all(self, store) ==
    AppmailMultiAlternatives(related_template(self, store), json_loads(self.context),
                             UserKwarg(self.user)
                                @@ ("to" :> <<self.to, "ginger@example.com">>))

as_message_object(self, store) ==
    AppmailMultiAlternatives(related_template(self, store), json_loads(self.context),
                             UserKwarg(self.user) @@ ("to" :> <<self.to>>))

\* (mutant of resend: a LoggedMessage without template is passed over)
resend_skipping(self, log_sent_emails, transport, failAt, store, rows, lid) ==
    LET composed == as_message_object(self, store)
        r == send(composed.message, log_sent_emails, transport, failAt,
                  store, rows, lid)
    IN  IF self.template = NoPk
        THEN [raises |-> None, message |-> NoMessage, logs |-> rows, lid |-> lid]
        ELSE IF composed.raises # None
        THEN [raises |-> composed.raises, message |-> NoMessage,
              logs |-> rows, lid |-> lid]
        ELSE [raises |-> r.raises, message |-> composed.message,
              logs |-> r.logs, lid |-> r.lid]

\* resend returns None; the result carries the message that was built
resend(self, log_sent_emails, transport, failAt, store, rows, lid) ==
    LET composed == as_message_object(self, store)
        r == send(composed.message, log_sent_emails, transport, failAt,
                  store, rows, lid)
    IN  IF composed.raises # None
        THEN [raises |-> composed.raises, message |-> NoMessage,
              logs |-> rows, lid |-> lid]
        ELSE [raises |-> r.raises, message |-> composed.message,
              logs |-> r.logs, lid |-> r.lid]

\* LoggedMessage.objects.get(id=id).resend(log_sent_emails=...)
Resend(id, log_sent_emails, transport, failAt) ==
    /\ id \in LogIds
    /\ outbox < MaxSends
    /\ nextLogId <= MaxLogs
    /\ \E r \in {resend(Log(id), log_sent_emails, transport, failAt,
                        templates, logs, nextLogId)} :
        /\ logs' = r.logs
        /\ nextLogId' = r.lid
        /\ outbox' = outbox + (IF r.message = NoMessage THEN 0
                               ELSE delivered(r.message, transport))
        /\ last' = [op |-> "resend", id |-> id, message |-> r.message,
                    log_sent_emails |-> log_sent_emails,
                    sent |-> IF r.message = NoMessage
                             THEN [raises |-> None, count |-> 0]
                             ELSE EmailMessage_send(r.message, transport),
                    failAt |-> failAt, raises |-> r.raises]
        /\ UNCHANGED <<templates, nextId, obj, users, now, settings>>

\* on_delete=SET_NULL of LoggedMessage.user
set_null_user(rows, pk) ==
    {IF l.user = pk THEN [l EXCEPT !.user = NoPk] ELSE l : l \in rows}

\* the project deletes a user
DeleteUser(pk) ==
    /\ pk \in {u.pk : u \in users}
    /\ users' = {u \in users : u.pk # pk}
    /\ logs' = set_null_user(logs, pk)
    /\ last' = [op |-> "delete_user", pk |-> pk, raises |-> None, new |-> NoPk]
    /\ UNCHANGED <<templates, nextId, obj, nextLogId, outbox, now, settings>>

OneRecipient == {<<"bruce@kung.fu">>, <<"fred@example.com">>}
Born == <<"first_name">> :> Date("2020-05-01")
LogContexts == {<<"first_name">> :> TestAndCompany, Born}
Delivering == {[raises |-> None, count |-> n] : n \in 0..1}

\* the edits of a stored template: other content that renders, and content
\* that does not, saved without validation
Edits == {<<Order, TRUE>>, <<Broken, FALSE>>}

\* requests that edit one template and send, log and resend messages to one
\* recipient
NextLog ==
    \/ CreateTemplate("welcome", LANGUAGE_CODE, 0, TRUE, Welcome, VALIDATE_ON_SAVE)
    \/ \E pk \in Pks, edit \in Edits : EditContent(pk, TRUE, edit[1], edit[2])
    \/ \E pk \in Pks : DeleteTemplate(pk)
    \/ SendSteps(LogContexts, {<<"bruce@kung.fu">>}, {<< >>}, {NoPk}, {TRUE}, Delivering)
    \/ \E id \in LogIds, log_sent_emails \in BOOLEAN, transport \in Delivering :
        \E failAt \in InsertFailures(<<Log(id).to>>, << >>, log_sent_emails, transport) :
            Resend(id, log_sent_emails, transport, failAt)

SpecLog == Init /\ [][NextLog]_vars

----------------------------------------------------------------------------
\* The management command truncate_logged_messages.

\* a timestamp is a time of day, the cutoff a date: a day has two ticks
TicksPerDay == 2

\* date.today()
date_today == now \div TicksPerDay

\* Command.cutoff
cutoff(retention) == date_today - retention

\* the date as a timestamp: its midnight
midnight(date) == date * TicksPerDay

\* (mutant of get_logs: the rows at the cutoff are taken as well)
get_logs_lte(rows, date) == {l \in rows : l.timestamp <= midnight(date)}

\* Command.get_logs: LoggedMessage.objects.filter(timestamp__lt=cutoff)
get_logs(rows, date) == {l \in rows : l.timestamp < midnight(date)}

\* (mutant of handle: the rows are deleted whether or not --commit is given)
handle_committing(retention, commit, rows) ==
    LET found == get_logs(rows, cutoff(retention))
    IN  [logs |-> rows \ found, reported |-> Cardinality(found),
         deleted |-> Cardinality(found)]

\* Command.handle: the rows left, the count written before the delete and
\* the count the delete returns
handle(retention, commit, rows) ==
    LET found == get_logs(rows, cutoff(retention))
    IN  IF ~commit
        THEN [logs |-> rows, reported |-> Cardinality(found), deleted |-> 0]
        ELSE [logs |-> rows \ found, reported |-> Cardinality(found),
              deleted |-> Cardinality(found)]

\* Command.add_arguments: the options of a command line
add_arguments(argv) ==
    [retention |-> get(argv, "retention", LOG_RETENTION_PERIOD),
     commit |-> get(argv, "commit", FALSE)]

\* manage.py truncate_logged_messages [--retention=...] [--commit]
Truncate(argv) ==
    \E options \in {add_arguments(argv)} :
      \E r \in {handle(options.retention, options.commit, logs)} :
        /\ logs' = r.logs
        /\ last' = [op |-> "truncate", argv |-> argv,
                    retention |-> options.retention, commit |-> options.commit,
                    reported |-> r.reported, deleted |-> r.deleted]
        /\ UNCHANGED <<templates, nextId, obj, nextLogId, outbox, users, now, settings>>

Period == LOG_RETENTION_PERIOD * TicksPerDay

\* time passes: a tick, or a retention period at once
Advance(ticks) ==
    /\ now + ticks <= Period + MaxClock
    /\ (now + ticks) % Period <= MaxClock
    /\ now' = now + ticks
    /\ last' = [op |-> "advance", ticks |-> ticks]
    /\ UNCHANGED <<templates, nextId, obj, logs, nextLogId, outbox, users, settings>>

\* command lines: with or without --commit, the retention left out or given
CommandLines ==
    {Given(commit, "commit", TRUE) @@ retention :
        commit \in BOOLEAN,
        retention \in {NoKwargs} \cup {"retention" :> days : days \in {0, 1}}}

NextRetention ==
    \/ CreateTemplate("welcome", LANGUAGE_CODE, 0, TRUE, Welcome, VALIDATE_ON_SAVE)
    \/ SendSteps(SendContexts, {<<"bruce@kung.fu">>}, {<< >>}, {NoPk}, {TRUE},
                 {[raises |-> None, count |-> 1]})
    \/ \E ticks \in {1, Period} : Advance(ticks)
    \/ \E argv \in CommandLines : Truncate(argv)

SpecRetention == Init /\ [][NextRetention]_vars

----------------------------------------------------------------------------
\* The life of a LoggedMessage: every request that runs while it is stored.

Accepting == {[raises |-> None, count |-> 1]}

NextLife ==
    \/ CreateTemplate("welcome", LANGUAGE_CODE, 0, TRUE, Welcome, VALIDATE_ON_SAVE)
    \/ \E pk \in Pks : EditContent(pk, TRUE, Order, VALIDATE_ON_SAVE)
    \/ \E pk \in Pks : CloneTemplate(pk)
    \/ \E pk \in Pks : DeleteTemplate(pk)
    \/ \E pk \in {1} : DeleteUser(pk)
    \/ SendSteps(SendContexts, {<<"bruce@kung.fu">>}, {<< >>}, SendUsers, {TRUE},
                 Accepting)
    \/ \E id \in LogIds, transport \in Accepting : Resend(id, TRUE, transport, 0)
    \/ Truncate(NoKwargs)

SpecLife == Init /\ [][NextLife]_vars

\* sends to an address of one user and to an address of two, with and
\* without a user named by the caller
NextUsers ==
    \/ CreateTemplate("welcome", LANGUAGE_CODE, 0, TRUE, Welcome, VALIDATE_ON_SAVE)
    \/ \E pk \in {1, 3} : DeleteUser(pk)
    \/ SendSteps(SendContexts, OneRecipient, {<< >>}, SendUsers, BOOLEAN, Accepting)

SpecUsers == Init /\ [][NextUsers]_vars

----------------------------------------------------------------------------
\* helpers.get_context on contents of its own.

\* the pieces of a content: text and the variables {{a}}, {{b.c}}, {{a.b}}
Pieces == {Lit(<<"Hello", " ">>), Var(<<"a">>), Var(<<"b", "c">>), Var(<<"a", "b">>)}

RECURSIVE SeqsUpTo(_, _)
SeqsUpTo(S, n) ==
    IF n = 0 THEN {<< >>}
    ELSE LET shorter == SeqsUpTo(S, n - 1)
         IN  shorter \cup {Append(q, x) : q \in shorter, x \in S}

SampleContents == SeqsUpTo(Pieces, MaxLen)

InitContext ==
    /\ templates = {}
    /\ nextId = 1
    /\ obj = NoObj
    /\ logs = {}
    /\ nextLogId = 1
    /\ outbox = 0
    /\ users = AuthUsers
    /\ now = 0
    /\ settings = DefaultSettings
    /\ \E content \in SampleContents : last = [op |-> "content", content |-> content]

\* helpers.get_context(content)
GetContext ==
    /\ last.op = "content"
    /\ last' = [op |-> "get_context", content |-> last.content,
                result |-> get_context(last.content)]
    /\ UNCHANGED <<templates, nextId, obj, logs, nextLogId, outbox, users, now, settings>>

NextContext == GetContext

SpecContext == InitContext /\ [][NextContext]_vars

----------------------------------------------------------------------------
\* The envelope of the messages composed by create_message, one after the
\* other, from the same keyword arguments of the caller.

\* a reply-to field with blanks around its entries
Spaced ==
    [Order EXCEPT !.from_email = "Ginger <ginger@example.com>",
                  !.reply_to = <<" ", "fred@example.com", " ", ",",
                                 "ginger@example.com", " ">>]

EnvelopeTemplates ==
    {EmailTemplate("welcome", LANGUAGE_CODE, 0, TRUE, Welcome),
     EmailTemplate("order", "de", 1, TRUE, Order),
     EmailTemplate("order", LANGUAGE_CODE, 2, TRUE, Spaced)}

HeaderArgs ==
    {NoKwargs} \cup
    {"headers" :> h : h \in {NoKwargs,
                             "X-Campaign" :> <<"spring">>,
                             ("X-Campaign" :> <<"spring">>)
                                @@ ("X-Appmail-Template" :> <<"mine">>)}}

EnvelopeArgs ==
    {("to" :> <<"bruce@kung.fu">>) @@ from_email @@ reply_to @@ headers :
        from_email \in {NoKwargs} \cup
            {"from_email" :> a : a \in {"", "donotreply@example.com"}},
        reply_to \in {NoKwargs} \cup
            {"reply_to" :> r : r \in {<< >>, << <<"support@example.com">> >>}},
        headers \in HeaderArgs}

InitEnvelope ==
    /\ templates = {}
    /\ nextId = 1
    /\ obj = NoObj
    /\ logs = {}
    /\ nextLogId = 1
    /\ outbox = 0
    /\ users = AuthUsers
    /\ now = 0
    /\ settings \in {[APPMAIL_ADD_HEADERS |-> flag] : flag \in BOOLEAN}
    /\ \E email_kwargs \in EnvelopeArgs :
        last = [op |-> "input", calls |-> 0, template |-> NoRow,
                given |-> email_kwargs, email_kwargs |-> email_kwargs,
                result |-> [raises |-> None, message |-> NoMessage]]

\* template.create_message(context, **email_kwargs) with the objects the
\* caller holds: last.email_kwargs is what they are now
Compose(template) ==
    /\ last.calls < MaxCalls
    /\ \E r \in {create_message(template, <<"first_name">> :> TestAndCompany,
                                last.email_kwargs)} :
        last' = [op |-> "create_message", calls |-> last.calls + 1,
                 template |-> template,
                 given |-> last.email_kwargs, email_kwargs |-> r.passed,
                 result |-> [raises |-> r.raises, message |-> r.message]]
    /\ UNCHANGED <<templates, nextId, obj, logs, nextLogId, outbox, users, now, settings>>

NextEnvelope == \E template \in EnvelopeTemplates : Compose(template)

SpecEnvelope == InitEnvelope /\ [][NextEnvelope]_vars

----------------------------------------------------------------------------
\* helpers.patch_context on contexts and processors of its own.

\* what the context processors of a project return for the request
ProcessorOutputs ==
    {EmptyDict,
     <<"first_name">> :> <<"Fred">>,
     <<"user", "last_name">> :> <<"Lee">>,
     (<<"company_name">> :> <<"Acme">>) @@ (<<"first_name">> :> <<"Ginger">>)}

PatchInputs ==
    {[context |-> context, processors |-> processors] :
        context \in Contexts, processors \in SeqsUpTo(ProcessorOutputs, MaxProcessors)}

InitPatch ==
    /\ templates = {}
    /\ nextId = 1
    /\ obj = NoObj
    /\ logs = {}
    /\ nextLogId = 1
    /\ outbox = 0
    /\ users = AuthUsers
    /\ now = 0
    /\ settings = DefaultSettings
    /\ \E input \in PatchInputs : last = [op |-> "input", input |-> input]

\* helpers.patch_context(context, processors)
PatchContext ==
    /\ last.op = "input"
    /\ last' = [op |-> "patch_context", input |-> last.input,
                result |-> patch_context(last.input.context, last.input.processors)]
    /\ UNCHANGED <<templates, nextId, obj, logs, nextLogId, outbox, users, now, settings>>

NextPatch == PatchContext

SpecPatch == InitPatch /\ [][NextPatch]_vars

----------------------------------------------------------------------------
\* The test email form (appmail.forms.EmailTestForm).

\* AppmailMessage(template, context, **email_kwargs): the composed message
\* of the specification (4.4); the class is not part of appmail.models here
AppmailMessage(template, context, email_kwargs) ==
    create_message(template, context, email_kwargs)

\* EmailTestForm._create_message
_create_message(cleaned_data, template) ==
    AppmailMessage(template, cleaned_data.context,
                   ("from_email" :> cleaned_data.from_email)
                   @@ ("to" :> cleaned_data.to)
                   @@ ("cc" :> cleaned_data.cc)
                   @@ ("bcc" :> cleaned_data.bcc))

\* EmailTestForm.send_emails from the k-th selected template on; request
\* holds the messages added so far, the rows logged and the sends made;
\* transports[k] is what the mail connection does at the k-th send
RECURSIVE send_emails(_, _, _, _, _)
send_emails(cleaned_data, k, transports, store, request) ==
    IF k > Len(cleaned_data.templates) THEN request
    ELSE LET template == cleaned_data.templates[k]
             email == _create_message(cleaned_data, template)
             r == send(email.message, LOG_SENT_EMAILS, transports[k], 0,
                       store, request.logs, request.lid)
         IN  IF email.raises # None THEN [request EXCEPT !.raises = email.raises]
             ELSE send_emails(cleaned_data, k + 1, transports, store,
                    [raises |-> None,
                     messages |-> Append(request.messages,
                                    [level |-> IF r.raises # None
                                               THEN "error" ELSE "success",
                                     template |-> template.name]),
                     sends |-> Append(request.sends, template.pk),
                     logs |-> r.logs, lid |-> r.lid,
                     delivered |-> request.delivered
                                    + delivered(email.message, transports[k])])

\* the rows of a queryset in an order the database may return them in
Orders(rows) ==
    {q \in SeqsUpTo(rows, Cardinality(rows)) :
        Len(q) = Cardinality(rows) /\ SeqToSet(q) = rows}

\* POST of the form with the templates of pks selected
SendEmails(pks, transports) ==
    /\ pks # {}
    /\ Len(transports) = Cardinality(pks)
    /\ outbox + Cardinality(pks) <= MaxSends
    /\ nextLogId + Cardinality(pks) - 1 <= MaxLogs
    /\ \E selected \in Orders({t \in templates : t.pk \in pks}) :
        \E r \in {send_emails([context |-> <<"first_name">> :> TestAndCompany,
                               from_email |-> "donotreply@example.com",
                               to |-> <<"fred@example.com">>,
                               cc |-> << >>, bcc |-> << >>,
                               templates |-> selected],
                              1, transports, templates,
                              [raises |-> None, messages |-> << >>, sends |-> << >>,
                               logs |-> logs, lid |-> nextLogId, delivered |-> 0])} :
            /\ logs' = r.logs
            /\ nextLogId' = r.lid
            /\ outbox' = outbox + r.delivered
            /\ last' = [op |-> "send_emails",
                        templates |-> [i \in DOMAIN selected |-> selected[i].pk],
                        transports |-> transports, raises |-> r.raises,
                        messages |-> r.messages, sends |-> r.sends]
            /\ UNCHANGED <<templates, nextId, obj, users, now, settings>>

FormKeys == {<<"welcome", LANGUAGE_CODE>>, <<"order", LANGUAGE_CODE>>}

\* templates stored with validation, or without it
NextForm ==
    \/ \E key \in FormKeys, content \in {Welcome, Broken}, validate \in BOOLEAN :
            CreateTemplate(key[1], key[2], 0, TRUE, content, validate)
    \/ \E pks \in SUBSET Pks :
        \E transports \in SeqsUpTo(Delivering \cup {[raises |-> "SMTPException",
                                                    count |-> 0]}, MaxSends) :
            SendEmails(pks, transports)

SpecForm == Init /\ [][NextForm]_vars

----------------------------------------------------------------------------
\* Rendering and validating a template on their own.

\* what a tag of a template source can raise: {% if %} without {% endif %},
\* {% include "foo.html" %}, {% url "briefs" %}
Failures == {"TemplateSyntaxError", "TemplateDoesNotExist", "NoReverseMatch"}

\* a template source, followed by a tag that raises when one is named
Source(source, raises) == IF raises = None THEN source ELSE source \o <<Tag(raises)>>

RenderTemplates ==
    {[EmailTemplate("welcome", LANGUAGE_CODE, 0, TRUE, Welcome)
        EXCEPT !.subject = Source(Welcome.subject, s),
               !.body_text = Source(Welcome.body_text, t),
               !.body_html = Source(Welcome.body_html, h)] :
        s \in {None} \cup Failures, t \in {None} \cup Failures,
        h \in {None} \cup Failures}

ContentTypeArgs == CONTENT_TYPES \cup {"foo", ""}

RenderInputs ==
    {[template |-> template, context |-> context, content_type |-> content_type] :
        template \in RenderTemplates,
        context \in {EmptyDict, <<"first_name">> :> TestAndCompany},
        content_type \in ContentTypeArgs}

InitRender ==
    /\ templates = {}
    /\ nextId = 1
    /\ obj = NoObj
    /\ logs = {}
    /\ nextLogId = 1
    /\ outbox = 0
    /\ users = AuthUsers
    /\ now = 0
    /\ settings = DefaultSettings
    /\ \E input \in RenderInputs : last = [op |-> "input", input |-> input]

\* template.render_body(context, content_type=content_type)
RenderBody ==
    /\ last.op = "input"
    /\ last' = [op |-> "render_body", input |-> last.input,
                result |-> render_body(last.input.template, last.input.context,
                                       last.input.content_type, CONTEXT_PROCESSORS)]
    /\ UNCHANGED <<templates, nextId, obj, logs, nextLogId, outbox, users, now, settings>>

\* template._validate_body(content_type)
ValidateBody ==
    /\ last.op = "input"
    /\ last' = [op |-> "_validate_body", input |-> last.input,
                result |-> _validate_body(last.input.template, last.input.content_type)]
    /\ UNCHANGED <<templates, nextId, obj, logs, nextLogId, outbox, users, now, settings>>

\* template.clean()
Clean ==
    /\ last.op = "input"
    /\ last' = [op |-> "clean", input |-> last.input,
                result |-> clean(last.input.template)]
    /\ UNCHANGED <<templates, nextId, obj, logs, nextLogId, outbox, users, now, settings>>

NextRender == RenderBody \/ ValidateBody \/ Clean

SpecRender == InitRender /\ [][NextRender]_vars

----------------------------------------------------------------------------
\* Properties of the template store.

SameKey(a, b) ==
    a.name = b.name /\ a.language = b.language /\ a.version = b.version

\* C1: current(name, language) is the stored active template of that name and
\* language with the highest version, and None when no active template has
\* that name and language; an inactive template is never returned.
CurrentIsHighestActive ==
    \A name \in Names, language \in Languages :
        LET r == current(templates, name, language)
            matches == {t \in templates :
                           t.is_active /\ t.name = name /\ t.language = language}
        IN  IF matches = {} THEN r = NoRow
            ELSE r \in matches /\ \A t \in matches : t.version <= r.version

\* an inactive template holds the highest version and current() returns the
\* active one below it
CurrentSkipsInactive ==
    \E a, b \in templates :
        /\ a.name = b.name /\ a.language = b.language
        /\ a.is_active /\ ~b.is_active /\ b.version > a.version
        /\ current(templates, a.name, a.language) = a
        /\ last.op \in {"edit", "deactivate", "clone", "create"}

\* C2 as stated: version(name, version, language) returns the stored template
\* of that key and raises DoesNotExist exactly when no stored template has it.
VersionFindsStored ==
    \A name \in Names, language \in Languages, v \in 0..MaxVersion :
        LET r == version(templates, name, v, language)
            stored == {t \in templates : t.name = name /\ t.language = language
                                            /\ t.version = v}
        IN  /\ r.raises = "DoesNotExist" <=> stored = {}
            /\ stored # {} => r.row \in stored

\* C2 amended: version(name, version, language) returns the stored active
\* template of that key and raises DoesNotExist exactly when no stored active
\* template has it (an inactive template of that key is not found).
VersionFindsActive ==
    \A name \in Names, language \in Languages, v \in 0..MaxVersion :
        LET r == version(templates, name, v, language)
            stored == {t \in templates : t.is_active /\ t.name = name
                                            /\ t.language = language /\ t.version = v}
        IN  /\ r.raises \in {None, "DoesNotExist"}
            /\ r.raises = "DoesNotExist" <=> stored = {}
            /\ stored # {} => r.row \in stored

\* one version of a template is found and another, inactive, is not
VersionMissesInactive ==
    \E a, b \in templates :
        /\ a.name = b.name /\ a.language = b.language
        /\ a.is_active /\ ~b.is_active
        /\ version(templates, a.name, a.version, a.language).row = a
        /\ version(templates, b.name, b.version, b.language).raises = "DoesNotExist"

\* C5 as stated: the record clone() creates is inactive.
CloneIsInactive ==
    (last.op = "clone" /\ last.raises = None) => ~Row(last.new).is_active

\* C5 amended: the record clone() creates has the is_active value of the
\* template it was cloned from.
CloneKeepsIsActive ==
    (last.op = "clone" /\ last.raises = None) =>
        /\ last.new \in Pks /\ last.pk \in Pks /\ last.new # last.pk
        /\ Row(last.new).is_active = Row(last.pk).is_active

\* clones of an active and of an inactive template
CloneOfActiveIsActive ==
    /\ last.op = "clone" /\ last.raises = None
    /\ Row(last.pk).is_active /\ Row(last.new).is_active

\* the key of src with the version raised by one is held by no stored row
NextVersionFree(src) ==
    ~\E t \in templates : t.name = src.name /\ t.language = src.language
                            /\ t.version = src.version + 1

\* the step stores exactly one new row, a copy of src one version up, and
\* leaves every row stored before as it was
AddsCopyOf(src) ==
    \E n \in templates' :
        /\ n.pk \notin Pks /\ n.pk # src.pk
        /\ templates' = templates \cup {n}
        /\ n.name = src.name /\ n.language = src.language
        /\ n.version = src.version + 1
        /\ ContentOf(n) = ContentOf(src)

\* C4 as stated: for every stored template T whose (name, language,
\* version + 1) is free, T.clone() adds exactly one new record, a copy of T
\* one version up, and changes no stored record.
CloneAddsCopy ==
    [][(last'.op = "clone" /\ NextVersionFree(Row(last'.pk)))
            => AddsCopyOf(Row(last'.pk))]_vars

\* C4 amended: the same for every stored template T whose (name, language,
\* version + 1) is free and whose subject and bodies pass clean(), which
\* clone() runs through save() when VALIDATE_ON_SAVE is on; when clean()
\* raises, clone() raises too and the store is unchanged.
CloneOfValidAddsCopy ==
    [][last'.op = "clone" =>
        LET src == Row(last'.pk)
            valid == ~VALIDATE_ON_SAVE \/ clean(src).raises = None
        IN  /\ (valid /\ NextVersionFree(src)) => AddsCopyOf(src)
            /\ ~valid => (last'.raises = clean(src).raises
                            /\ templates' = templates)]_vars

\* a template with a description, a sender and two reply-to addresses of
\* its own has been cloned
CloneCopiedContent ==
    /\ last.op = "clone" /\ last.raises = None
    /\ ContentOf(Row(last.new)) = ContentOf(Order)
    /\ ContentOf(Row(last.pk)) = ContentOf(Order)
    /\ Row(last.new).version = Row(last.pk).version + 1
    /\ Cardinality(templates) > 1

\* C3: no two stored templates share (name, language, version), whatever the
\* interleaving of the sessions' saves and clones; a save or clone whose key
\* is held by another stored row raises IntegrityError and stores nothing.
UniqueKeys ==
    \A a, b \in templates : (SameKey(a, b) \/ a.pk = b.pk) => a = b

KeysStayUnique ==
    [][/\ UniqueKeys'
       /\ last'.op \in {"save", "clone"} =>
            LET written == obj'[last'.s]
                taken == \E t \in templates : t.pk # written.pk /\ SameKey(t, written)
            IN  /\ taken <=> last'.raises = "IntegrityError"
                /\ taken => templates' = templates]_vars

\* two sessions hold unsaved instances of one key; the first has stored its
\* own and the second was refused
SecondWriterRefused ==
    /\ last.op \in {"save", "clone"} /\ last.raises = "IntegrityError"
    /\ \E s \in Sessions \ {last.s} :
        /\ obj[s] \in templates
        /\ SameKey(obj[s], obj[last.s])
        /\ obj[last.s].pk = NoPk

----------------------------------------------------------------------------
\* Properties of composing a message.

Composed == last.op \in {"create_message", "AppmailMultiAlternatives"}

\* C6: a call that composes a message, through create_message or through the
\* message class itself, with subject, body or alternatives among the
\* caller's arguments raises ValueError and produces no message.
ReservedKwargsRejected ==
    (Composed /\ Reserved \cap DOMAIN last.input.email_kwargs # {})
        => (last.result.raises = "ValueError" /\ last.result.message = NoMessage)

Entity ==
    ("&" :> "&amp;") @@ ("<" :> "&lt;") @@ (">" :> "&gt;")
        @@ ("\"" :> "&quot;") @@ ("'" :> "&#x27;")

RECURSIVE Expected(_, _, _)
Expected(source, context, escaped) ==
    IF source = << >> THEN << >>
    ELSE LET tok == Head(source)
             value == IF tok.path \in DOMAIN context THEN context[tok.path] ELSE << >>
             piece == IF tok.t = "lit" THEN tok.s
                      ELSE IF escaped
                      THEN [i \in DOMAIN value |->
                                IF value[i] \in DOMAIN Entity
                                THEN Entity[value[i]] ELSE value[i]]
                      ELSE value
         IN  piece \o Expected(Tail(source), context, escaped)

\* C8: a composed message has the subject template rendered without
\* escaping as its subject, the plain-text template rendered without escaping
\* as its body, and as its alternatives the one pair of the HTML template
\* rendered with the context values escaped and "text/html"; the value
\* "Test & Company" keeps its "&" in subject and body and is "&amp;" in the HTML.
ComposedAsRendered ==
    (Composed /\ last.result.raises = None)
        => LET m == last.result.message
               t == last.input.template
               context == last.input.context
           IN  /\ m.subject = Expected(t.subject, context, FALSE)
               /\ m.body = Expected(t.body_text, context, FALSE)
               /\ m.alternatives
                    = << <<Expected(t.body_html, context, TRUE), "text/html">> >>
               /\ (t.subject = Welcome.subject /\ t.body_html = Welcome.body_html
                        /\ context = <<"first_name">> :> TestAndCompany)
                    => /\ m.subject = <<"Welcome", " ", "Test", " ", "&", " ", "Company">>
                       /\ m.body = <<"Hello", " ", "Test", " ", "&", " ", "Company">>
                       /\ m.alternatives[1][1]
                            = <<"<h1>", "Hello", " ", "Test", " ", "&amp;", " ",
                                "Company", "</h1>">>

ComposedTestAndCompany ==
    /\ last.op = "create_message"
    /\ last.result.raises = None
    /\ last.input.context = <<"first_name">> :> TestAndCompany
    /\ last.input.template.subject = Welcome.subject
    /\ "&" \in SeqToSet(last.result.message.subject)
    /\ "&amp;" \in SeqToSet(last.result.message.alternatives[1][1])
    /\ Len(last.result.message.alternatives) = 1

----------------------------------------------------------------------------
\* Properties of sending.

\* C9: a send that returns, with logging on and a count above 0 from the
\* connection, adds one LoggedMessage for each entry of the message's to list
\* and none for cc, each with that address and the message's template,
\* subject, body, HTML and context; with logging off or a count of 0 it adds
\* none; it returns the count.
SendLogsEachTo ==
    [][(last'.op = "send" /\ last'.raises = None) =>
        LET m == last'.message
        IN  /\ last'.returns = last'.sent.count
            /\ IF last'.log_sent_emails /\ last'.sent.count > 0
               THEN /\ logs \subseteq logs'
                    /\ Cardinality(logs' \ logs) = Len(m.to)
                    /\ \A i \in DOMAIN m.to :
                        \E l \in logs' \ logs :
                            /\ l.id = nextLogId + i - 1
                            /\ l.to = m.to[i]
                            /\ l.template = m.template.pk
                            /\ l.subject = m.subject /\ l.body = m.body
                            /\ l.html = m.alternatives[1][1]
                            /\ l.context = m.context
                    /\ \A l \in logs' \ logs : l.to \notin SeqToSet(m.cc)
               ELSE logs' = logs]_vars

SentToTwoAndCc ==
    /\ last.op = "send" /\ last.raises = None
    /\ last.log_sent_emails /\ last.returns > 0
    /\ Len(last.message.to) = 2 /\ last.message.cc # << >>
    /\ {l.to : l \in logs} = SeqToSet(last.message.to)
    /\ Cardinality(logs) = 2

SentWithoutLog ==
    /\ last.op = "send" /\ last.raises = None
    /\ ~last.log_sent_emails /\ last.returns > 0 /\ logs = {}

\* C10: a send that ends with an error while a LoggedMessage of its to
\* entries is created leaves the stored LoggedMessages as they were before
\* the send, and the delivery it made is counted once.
LogWritesAllOrNothing ==
    [][(last'.op = "send" /\ last'.raises # None) =>
        /\ logs' = logs
        /\ outbox' = outbox + (IF last'.sent.raises = None /\ last'.sent.count > 0
                               THEN 1 ELSE 0)]_vars

SecondLogFailed ==
    /\ last.op = "send" /\ last.raises = "DatabaseError"
    /\ Len(last.message.to) = 2 /\ last.failAt = 2
    /\ last.sent.count > 0
    /\ outbox = 2
    /\ Cardinality(logs) = 1
    /\ \A l \in logs : l.id = 1

\* the address in lower case
lower(email) == IF email = "Fred@Example.com" THEN "fred@example.com" ELSE email

\* the single user whose email equals the address but for case, if there is one
MatchingUser(address) ==
    LET matches == {u \in users : lower(u.email) = lower(address)}
    IN  IF Cardinality(matches) = 1 THEN (CHOOSE u \in matches : TRUE).pk ELSE NoPk

\* C11: every LoggedMessage that a send creates refers to the single user
\* whose email equals its address case-insensitively, and to no user when
\* none or several match.
LogsReferToMatchingUser ==
    [][last'.op = "send" =>
        \A l \in logs' \ logs : l.user = MatchingUser(l.to)]_vars

\* C18 as stated: a stored LoggedMessage keeps every field until the
\* retention command removes it.
LoggedMessageImmutable ==
    [][\A l \in logs : l \in logs' \/ (last'.op = "truncate" /\ l.id \notin LogIds')]_vars

\* the fields of a LoggedMessage other than its references
Recorded(l) ==
    [id |-> l.id, to |-> l.to, timestamp |-> l.timestamp, subject |-> l.subject,
     body |-> l.body, html |-> l.html, context |-> l.context]

\* C18: a stored LoggedMessage keeps its recipient, subject, body, html,
\* context and timestamp until the retention command removes it; its
\* template reference changes only to none, when that template is deleted,
\* and its user reference only to none, when that user is deleted.
LoggedMessageKeepsRecord ==
    [][\A l \in logs :
        \/ last'.op = "truncate" /\ l.id \notin LogIds'
        \/ \E k \in logs' :
            /\ Recorded(k) = Recorded(l)
            /\ k.template # l.template =>
                /\ k.template = NoPk
                /\ last'.op = "delete" /\ last'.pk = l.template
            /\ k.user # l.user =>
                /\ k.user = NoPk
                /\ last'.op = "delete_user" /\ last'.pk = l.user]_vars

\* a LoggedMessage stored with a template and a user, both deleted since,
\* and sent again
LogOutlivedReferences ==
    /\ \E l \in logs : l.template = NoPk /\ l.user = NoPk /\ l.to = "bruce@kung.fu"
    /\ templates = {}
    /\ 1 \notin {u.pk : u \in users}
    /\ Cardinality(logs) >= 2

----------------------------------------------------------------------------
\* Properties of the retention command.

\* the rows whose timestamp is before the start of the day that lies
\* `retention` days before today
OlderThanCutoff(retention) ==
    {l \in logs : l.timestamp < ((now \div TicksPerDay) - retention) * TicksPerDay}

\* C16: the command without --commit writes the number of LoggedMessages
\* older than the cutoff and leaves the stored LoggedMessages, with all their
\* fields, as they were, for every retention.
DryRunDeletesNothing ==
    [][(last'.op = "truncate" /\ "commit" \notin DOMAIN last'.argv) =>
        /\ logs' = logs
        /\ last'.reported = Cardinality(OlderThanCutoff(last'.retention))
        /\ last'.deleted = 0]_vars

DryRunReportedOld ==
    /\ last.op = "truncate" /\ "commit" \notin DOMAIN last.argv
    /\ last.reported = 1
    /\ Cardinality(logs) = 2

\* C17: the command with --commit deletes the LoggedMessages older than the
\* cutoff (today minus the retention, 180 days when none is given) and no
\* other; the count it reports is the one the dry run reports in that state;
\* templates and users stay.
CommitDeletesOld ==
    [][(last'.op = "truncate" /\ "commit" \in DOMAIN last'.argv) =>
        /\ last'.retention = IF "retention" \in DOMAIN last'.argv
                             THEN last'.argv["retention"] ELSE 180
        /\ logs' = logs \ OlderThanCutoff(last'.retention)
        /\ last'.deleted = Cardinality(logs \ logs')
        /\ last'.deleted = handle(last'.retention, FALSE, logs).reported
        /\ templates' = templates /\ users' = users]_vars

CommitDeletedOldKeptNew ==
    /\ last.op = "truncate" /\ DOMAIN last.argv = {"commit"}
    /\ last.deleted = 1
    /\ \E l \in logs : l.timestamp = midnight(cutoff(last.retention))

----------------------------------------------------------------------------
\* Properties of sending a logged message again.

\* C12: resend of a LoggedMessage whose template reference is none raises;
\* no message is handed to the mail connection and the stored LoggedMessages
\* stay as they were.
ResendWithoutTemplateRaises ==
    [][(last'.op = "resend" /\ Log(last'.id).template = NoPk) =>
        /\ last'.raises \notin {None}
        /\ last'.message = NoMessage
        /\ outbox' = outbox
        /\ logs' = logs]_vars

ResentAfterTemplateDeleted ==
    /\ last.op = "resend" /\ last.raises = "AttributeError"
    /\ templates = {}
    /\ \E l \in logs : l.id = last.id /\ l.template = NoPk /\ l.subject # << >>

\* what every resend leaves in place: the LoggedMessages stored before it
KeepsStored == logs \subseteq logs'

\* C13 as stated: resend with logging of a LoggedMessage whose template is
\* stored hands one message, to the logged recipient only, to the mail
\* connection and stores one more LoggedMessage for that recipient, next to
\* those stored before.
ResendSendsAndLogsOne ==
    [][(last'.op = "resend" /\ last'.log_sent_emails
            /\ Log(last'.id).template # NoPk) =>
        /\ last'.message # NoMessage
        /\ recipients(last'.message) = <<Log(last'.id).to>>
        /\ KeepsStored
        /\ Cardinality(logs' \ logs) = 1
        /\ \A l \in logs' \ logs : l.to = Log(last'.id).to]_vars

\* C13: such a resend hands one message, to the logged recipient only, to the
\* mail connection when the stored template renders, and raises without
\* handing over anything when it does not; it stores one more LoggedMessage
\* for that recipient when the connection reports the message as sent and
\* resend returns, and none otherwise; the LoggedMessages stored before stay.
ResendOfRenderedSendsAndLogsOne ==
    [][(last'.op = "resend" /\ last'.log_sent_emails
            /\ Log(last'.id).template # NoPk) =>
        LET l == Log(last'.id)
            t == CHOOSE t \in templates : t.pk = l.template
            renders == \A source \in {t.subject, t.body_text, t.body_html} :
                            \A i \in DOMAIN source : source[i].t # "tag"
        IN  /\ KeepsStored
            /\ IF renders
               THEN /\ last'.message # NoMessage
                    /\ recipients(last'.message) = <<l.to>>
               ELSE /\ last'.message = NoMessage
                    /\ last'.raises \notin {None}
                    /\ outbox' = outbox
            /\ IF renders /\ last'.sent.count > 0 /\ last'.raises = None
               THEN /\ outbox' = outbox + 1
                    /\ Cardinality(logs' \ logs) = 1
                    /\ \A k \in logs' \ logs : k.to = l.to /\ k.template = l.template
               ELSE logs' = logs]_vars

SentThenResent ==
    /\ last.op = "resend" /\ last.raises = None /\ last.log_sent_emails
    /\ last.sent.count > 0
    /\ outbox = 2
    /\ Cardinality(logs) = 2
    /\ \A l \in logs : l.to = "bruce@kung.fu"

\* C14: the message that resend hands to the mail connection has the
\* subject, body and html stored in the LoggedMessage, whatever edits the
\* template has seen since.
ResendSendsWhatWasLogged ==
    [][(last'.op = "resend" /\ last'.message # NoMessage) =>
        /\ last'.message.subject = Log(last'.id).subject
        /\ last'.message.body = Log(last'.id).body
        /\ last'.message.alternatives = << <<Log(last'.id).html, "text/html">> >>]_vars

\* the send that has just stored the LoggedMessage of its one recipient
JustLogged ==
    /\ last.op = "send" /\ last.raises = None
    /\ last.log_sent_emails /\ last.sent.count > 0
    /\ Len(last.message.to) = 1

NewestLog == CHOOSE l \in logs : l.id = nextLogId - 1

\* C15 as stated: the message made from the LoggedMessage of a send to one
\* recipient has the template and the context of the message sent and the
\* logged recipient as its to list.
RehydratedIsSent ==
    JustLogged =>
        LET r == as_message_object(NewestLog, templates)
        IN  /\ r.raises = None
            /\ r.message.template.pk = last.message.template.pk
            /\ r.message.context = last.message.context
            /\ r.message.to = <<NewestLog.to>>
            /\ NewestLog.to = last.message.to[1]

\* C15: that message has the template of the message sent, the logged
\* recipient as its to list, and the context of the message sent as JSON
\* gives it back: text as it was, a date as its ISO text.
RehydratedIsSentAsJson ==
    JustLogged =>
        LET r == as_message_object(NewestLog, templates)
            sent == last.message.context
        IN  /\ r.raises = None
            /\ r.message.template.pk = last.message.template.pk
            /\ DOMAIN r.message.context = DOMAIN sent
            /\ \A path \in DOMAIN sent :
                r.message.context[path] =
                    IF sent[path] = <<"datetime.date", "2020-05-01">>
                    THEN <<"2020-05-01">> ELSE sent[path]
            /\ r.message.to = <<NewestLog.to>>
            /\ NewestLog.to = last.message.to[1]

RehydratedDate ==
    /\ JustLogged
    /\ last.message.context = Born
    /\ as_message_object(NewestLog, templates).message.context
            = <<"first_name">> :> <<"2020-05-01">>

----------------------------------------------------------------------------
\* Properties of the sample context.

OrderSample ==
    (<<"user", "first_name">> :> <<"FIRST_NAME">>)
        @@ (<<"company_name">> :> <<"COMPANY_NAME">>)

BrokenSample == <<"first_name">> :> <<"FIRST_NAME">>

\* C19: the test context of a record is the sample of its subject, plain
\* body and HTML body as they are when the record is first saved, and every
\* later save of the record leaves it as it is, whatever the edits.
TestContextSetOnce ==
    [][\A t \in templates' :
        IF t.pk \in Pks
        THEN t.test_context = Row(t.pk).test_context
        ELSE t.test_context = IF ContentOf(t) = ContentOf(Order)
                              THEN OrderSample ELSE BrokenSample]_vars

\* a record first saved with one content and edited to another since
EditedKeepsFirstSample ==
    /\ last.op = "edit" /\ last.raises = None
    /\ \E t \in templates :
        /\ t.pk = last.pk
        /\ ContentOf(t) = ContentOf(Broken)
        /\ t.test_context = OrderSample

\* the variables of a content
VarsOf(content) == {content[i].path : i \in {j \in DOMAIN content : content[j].t = "var"}}

----------------------------------------------------------------------------
\* Properties of rendering and validating.

Raised(source) ==
    IF \E i \in DOMAIN source : source[i].t = "tag"
    THEN source[CHOOSE i \in DOMAIN source : source[i].t = "tag"].error
    ELSE None

\* the fields of the template and what rendering each raises
FieldFailures(t) ==
    [subject |-> Raised(t.subject), body_text |-> Raised(t.body_text),
     body_html |-> Raised(t.body_html)]

NoReverseMatchIsFieldError ==
    (/\ last.op = "_validate_body"
     /\ last.input.content_type = "text/html"
     /\ Raised(last.input.template.body_html) = "NoReverseMatch")
        => last.result.raises = None /\ last.result.errors = {"body_html"}

----------------------------------------------------------------------------
\* Properties of the envelope.

\* the reply-to field of the template as a list of trimmed addresses
ReplyToOf(template) ==
    IF template.reply_to = Welcome.reply_to THEN << <<"webmaster@localhost">> >>
    ELSE << <<"fred@example.com">>, <<"ginger@example.com">> >>

GivenHeaders == IF "headers" \in DOMAIN last.given THEN last.given["headers"] ELSE << >>

\* C24: with ADD_EXTRA_HEADERS on the headers of the message composed are
\* the caller's with X-Appmail-Template set to name, language and version of
\* the template, in place of a value the caller gave for it; with the
\* setting off they are the caller's and nothing else.
ExtraHeaderGated ==
    (last.op = "create_message" /\ last.result.raises = None) =>
        LET headers == last.result.message.headers
            t == last.template
        IN  IF settings.APPMAIL_ADD_HEADERS
            THEN /\ DOMAIN headers = DOMAIN GivenHeaders \cup {"X-Appmail-Template"}
                 /\ headers["X-Appmail-Template"] =
                        <<"name=", t.name, "; language=", t.language,
                          "; version=", ToString(t.version)>>
                 /\ \A k \in DOMAIN GivenHeaders \ {"X-Appmail-Template"} :
                        headers[k] = GivenHeaders[k]
            ELSE /\ DOMAIN headers = DOMAIN GivenHeaders
                 /\ \A k \in DOMAIN GivenHeaders : headers[k] = GivenHeaders[k]

CallerHeadersOnly ==
    /\ last.op = "create_message" /\ last.result.raises = None
    /\ ~settings.APPMAIL_ADD_HEADERS
    /\ "headers" \in DOMAIN last.given
    /\ DOMAIN last.result.message.headers = {"X-Campaign"}

\* C30: create_message leaves the headers mapping of the caller as it was:
\* after the call it holds the keys and values it held before.
CallerHeadersUntouched ==
    last.op = "create_message" => last.email_kwargs = last.given

\* C28: the message made from a LoggedMessage has the envelope of the
\* message create_message makes for its template, context and recipient:
\* the sender and the reply-to list of the template and, with
\* ADD_EXTRA_HEADERS on, the X-Appmail-Template header.
RehydratedEnvelopeIsComposed ==
    (last.op = "resend" /\ last.message # NoMessage) =>
        LET l == Log(last.id)
            t == related_template(l, templates)
            composed == create_message(t, json_loads(l.context),
                                       "to" :> <<l.to>>).message
        IN  /\ last.message.from_email = t.from_email
            /\ last.message.from_email = composed.from_email
            /\ last.message.reply_to = composed.reply_to
            /\ last.message.headers = composed.headers
            /\ ADD_EXTRA_HEADERS => "X-Appmail-Template" \in DOMAIN last.message.headers

----------------------------------------------------------------------------
\* Properties of the patched context.

\* the keys of a context, and what a context holds under a key
KeysOf(d) == {p[1] : p \in DOMAIN d}
Under(d, k) == [p \in {q \in DOMAIN d : q[1] = k} |-> d[p]]

\* C25: the context patch_context returns has the keys of the caller's
\* context and of every processor; under each key it holds what the last
\* processor of the list that supplies the key holds, and what the caller's
\* context holds when no processor supplies it; with no processors it is the
\* caller's context.
PatchedInListOrder ==
    last.op = "patch_context" =>
        LET context == last.input.context
            processors == last.input.processors
            supplying(k) == {i \in DOMAIN processors : k \in KeysOf(processors[i])}
            latest(k) == CHOOSE i \in supplying(k) : \A j \in supplying(k) : j <= i
        IN  /\ KeysOf(last.result) =
                    KeysOf(context) \cup UNION {KeysOf(processors[i]) : i \in DOMAIN processors}
            /\ \A k \in KeysOf(last.result) :
                    Under(last.result, k) =
                        IF supplying(k) # {} THEN Under(processors[latest(k)], k)
                        ELSE Under(context, k)
            /\ processors = << >> => last.result = context

PatchedTwice ==
    /\ last.op = "patch_context"
    /\ last.input.context = <<"first_name">> :> TestAndCompany
    /\ Len(last.input.processors) = 2
    /\ last.input.processors[1] = <<"first_name">> :> <<"Fred">>
    /\ last.result = (<<"company_name">> :> <<"Acme">>) @@ (<<"first_name">> :> <<"Ginger">>)

----------------------------------------------------------------------------
\* Properties of validation at save.

\* C29: a save that validates and whose clean() raises ValidationError
\* leaves the table as it was: no row added for a new template, the row of a
\* stored template as before; a save with validate=False never raises
\* ValidationError and stores the record, whatever its content; a record
\* stored by a save that validates renders.
InvalidSaveStoresNothing ==
    [][last'.op \in {"create", "edit", "clone"} =>
        /\ last'.raises = "ValidationError" =>
            /\ last'.validate
            /\ templates' = templates
            /\ nextId' = nextId
        /\ ~last'.validate =>
            /\ last'.raises \in {None, "IntegrityError"}
            /\ last'.raises = None => \E t \in templates' : t.pk = last'.new
        /\ (last'.validate /\ last'.raises = None) =>
            \E t \in templates' :
                t.pk = last'.new /\ ContentOf(t) # ContentOf(Broken)]_vars

\* a template stored without validation, whose later save with validation
\* was refused
RefusedSaveOfStored ==
    /\ last.op = "edit" /\ last.validate /\ last.raises = "ValidationError"
    /\ \E t \in templates : t.pk = last.pk /\ ContentOf(t) = ContentOf(Broken)

----------------------------------------------------------------------------
\* Properties of the test email form.

\* C27: send_emails calls send once for every selected template, in their
\* order; a send that raises adds one error message for its template and
\* the later templates are still sent; a send that returns adds one success
\* message; the messages are as many as the templates selected.
SendEmailsReportsEach ==
    last.op = "send_emails" =>
        /\ last.raises = None
        /\ last.sends = last.templates
        /\ Len(last.messages) = Len(last.templates)
        /\ \A k \in DOMAIN last.messages :
            /\ last.messages[k].template
                    = (CHOOSE t \in templates : t.pk = last.templates[k]).name
            /\ last.messages[k].level =
                    IF last.transports[k].raises # None THEN "error" ELSE "success"

====
